---- MODULE Spec2Model ----
(***************************************************************************)
(* A model of the windowing and caching engine of react-virtual-scroll:    *)
(* the VirtualScroll component (src/src/VirtualScroll.tsx), as a state     *)
(* machine whose actions are the component's handlers, each followed by    *)
(* the render and the effects React runs for it; and the Row Packer of     *)
(* the VirtualScrollRow component (src/src/VirtualScrollRow.tsx).          *)
(*                                                                         *)
(* Numbers are integers: pixel heights and scroll offsets are drawn from   *)
(* integer sets, and the layouts are chosen so that the weighted default   *)
(* height (a division in the source) is exact.                             *)
(***************************************************************************)
EXTENDS Integers, Sequences, FiniteSets, Bags, TLC

VARIABLES
    \* props of VirtualScroll, fixed for one mounted component
    isInfinite, useCache, cacheSize, pageSize, additionalHeight, layout, torrent,
    \* React state
    layoutHeights, defaultHeight, resolvedCount, itemsMap,
    viewportHeight, scrollTop,
    \* refs
    heightsRef, prefixRef, totalDeltaRef, maxLoadedCountRef,
    \* memoised values of the last render
    knownCount, totalHeight,
    \* calls to the injected source that have not resolved yet
    inflight,
    \* history: the latest height given to setIndexHeight for each index, and
    \* the least boundary a completed answer has shown (Null: none)
    lastSet, observed,
    \* VirtualScrollRow: the flat source its torrent prop serves, React state
    source, itemsPerRow, isReady,
    \* VirtualScrollRow: refs of the element -> row mapping
    rowsRef, pendingChunkRef, elementCursorRef, endReachedRef, pendingFetchId,
    fetchingRef,
    \* the source calls of ensureRows that have not resolved yet, and the
    \* ensureRows calls in their backoff
    rowFetch, rowWaiting,
    \* history: the itemsPerRow changes after the first measurement, and the
    \* greatest neededRows of the ensureRows calls that returned since the
    \* last reset (0: none has), and the ensureRows calls that rejected
    changes, returned, rejected

props == <<isInfinite, useCache, cacheSize, pageSize, additionalHeight, layout,
          torrent>>
heightTable == <<heightsRef, prefixRef, totalDeltaRef>>
history == <<lastSet, observed>>
rowPacker == <<source, itemsPerRow, isReady, rowsRef, pendingChunkRef,
              elementCursorRef, endReachedRef, pendingFetchId, fetchingRef,
              rowFetch, rowWaiting, changes, returned, rejected>>
scrollEngine == <<props, layoutHeights, defaultHeight, resolvedCount, itemsMap,
                 viewportHeight, scrollTop, heightTable, maxLoadedCountRef,
                 knownCount, totalHeight, inflight, history>>
vars == <<scrollEngine, rowPacker>>

----------------------------------------------------------------------------
(* Bounds of the model *)

\* indices the Height Table scenarios touch: 0 .. MaxHeightIndex
MaxHeightIndex == 3
\* heights passed to setIndexHeight: 0 .. MaxSetHeight
MaxSetHeight == 2
\* a scroll event is taken only while fewer than MaxInflight calls are pending
MaxInflight == 2
\* pages fetchItems is called for on its own: 0 .. MaxFetchPage
MaxFetchPage == 1
\* scroll positions computeRange is called at on its own: 0 .. MaxRangeScroll
MaxRangeScroll == 4

\* the versions of the data a source answers a call of fetchItems with
Versions == {1, 2}
\* the lengths of the answers to a call of the given size: empty, short, full
AnswerLengths(size) == {0, 2, size}

\* the props and environment one mounted component is given
CacheSizes == {4}
PageSizes == {3}
AdditionalHeights == {1}
ViewportHeights == {4}
ScrollTops == {0, 16}
Layouts ==
    { <<[key |-> "a", height |-> 1, elemsCount |-> 6],
        [key |-> "b", height |-> 3, elemsCount |-> 6]>> }
DefaultHeights == {1, 2}
\* layouts whose boundNodes measure 0, so that the default height stays 0; every
\* layout of the model declares the same keys and the same number of elements
FlatLayouts ==
    { <<[key |-> "a", height |-> 0, elemsCount |-> 6],
        [key |-> "b", height |-> 0, elemsCount |-> 6]>>,
      <<[key |-> "a", height |-> 0, elemsCount |-> 4],
        [key |-> "b", height |-> 0, elemsCount |-> 8]>> }
\* the page sizes and viewport heights computeRange is called with on its own
RangePageSizes == {3, 24}
RangeViewportHeights == {0, 4}
\* the injected sources a component may be given, by identity
Torrents == {1, 2}
\* the sizes fetchItems is called with on its own
FetchSizes == {6}

----------------------------------------------------------------------------
(* Program constants and plain helpers *)

BUFFER == 5

\* the value of a React state or ref that holds null
Null == -1

Min(a, b) == IF a < b THEN a ELSE b
Max(a, b) == IF a > b THEN a ELSE b
Abs(a) == IF a < 0 THEN -a ELSE a

\* the greatest element of a non-empty set of integers, found as the least of
\* the negated elements
Highest(S) ==
    LET negated == {0 - y : y \in S}
    IN  0 - (CHOOSE x \in negated : \A z \in negated : x <= z)

EmptyMap == [i \in {} |-> 0]

\* obj[i] ?? dflt, for a Record<number, number>
OrDefault(obj, i, dflt) == IF i \in DOMAIN obj THEN obj[i] ELSE dflt

----------------------------------------------------------------------------
(* Height Table.  prefixRef.current is a JavaScript array indexed from 0;   *)
(* here it is a sequence, so pref[i] of the source is pref[i + 1].          *)

RECURSIVE ensurePrefix(_, _, _, _)
ensurePrefix(pref, heights, dh, index) ==
    IF Len(pref) > index
    THEN pref
    ELSE ensurePrefix(
            Append(pref, pref[Len(pref)] + OrDefault(heights, Len(pref) - 1, dh)),
            heights, dh, index)

\* topForIndex returns a value and, through ensurePrefix, grows the array
topForIndexPref(pref, heights, dh, index) ==
    IF index <= 0 THEN pref ELSE ensurePrefix(pref, heights, dh, index)

topForIndex(pref, heights, dh, index) ==
    IF index <= 0 THEN 0 ELSE ensurePrefix(pref, heights, dh, index)[index + 1]

\* a mutant of setIndexHeight: the shift starts at index instead of index + 1
setIndexHeightShiftsOwnEntry(tbl, dh, index, h) ==
    LET prev == OrDefault(tbl.heights, index, dh)
        delta == h - prev
    IN  IF delta = 0
        THEN tbl
        ELSE [heights |-> [j \in DOMAIN tbl.heights \cup {index} |->
                              IF j = index THEN h ELSE tbl.heights[j]],
              delta |-> tbl.delta + delta,
              pref |-> [i \in 1..Len(tbl.pref) |->
                           IF i - 1 >= index THEN tbl.pref[i] + delta
                                             ELSE tbl.pref[i]]]

\* a mutant of setIndexHeight: the delta is taken against the default height,
\* not against the height the index has
setIndexHeightIgnoresPrevious(tbl, dh, index, h) ==
    LET delta == h - dh
    IN  IF delta = 0
        THEN tbl
        ELSE [heights |-> [j \in DOMAIN tbl.heights \cup {index} |->
                              IF j = index THEN h ELSE tbl.heights[j]],
              delta |-> tbl.delta + delta,
              pref |-> [i \in 1..Len(tbl.pref) |->
                           IF i - 1 >= index + 1 THEN tbl.pref[i] + delta
                                                 ELSE tbl.pref[i]]]

\* a mutant of setIndexHeight: the entry right after the index keeps its value
setIndexHeightSkipsNext(tbl, dh, index, h) ==
    LET prev == OrDefault(tbl.heights, index, dh)
        delta == h - prev
    IN  IF delta = 0
        THEN tbl
        ELSE [heights |-> [j \in DOMAIN tbl.heights \cup {index} |->
                              IF j = index THEN h ELSE tbl.heights[j]],
              delta |-> tbl.delta + delta,
              pref |-> [i \in 1..Len(tbl.pref) |->
                           IF i - 1 >= index + 2 THEN tbl.pref[i] + delta
                                                 ELSE tbl.pref[i]]]

\* tbl is [heights, pref, delta]: heightsRef, prefixRef and totalDeltaRef
setIndexHeight(tbl, dh, index, h) ==
    LET prev == OrDefault(tbl.heights, index, dh)
        delta == h - prev
    IN  IF delta = 0
        THEN tbl
        ELSE [heights |-> [j \in DOMAIN tbl.heights \cup {index} |->
                              IF j = index THEN h ELSE tbl.heights[j]],
              delta |-> tbl.delta + delta,
              pref |-> [i \in 1..Len(tbl.pref) |->
                           IF i - 1 >= index + 1 THEN tbl.pref[i] + delta
                                                 ELSE tbl.pref[i]]]

Table == [heights |-> heightsRef, pref |-> prefixRef, delta |-> totalDeltaRef]

----------------------------------------------------------------------------
(* Layout measurement.  A layout is the sequence of its entries in key      *)
(* order; height is what getBoundingClientRect reports for the boundNode.   *)

RECURSIVE SumOver(_, _)
SumOver(seq, i) == IF i = 0 THEN 0 ELSE seq[i] + SumOver(seq, i - 1)

layoutKeys(l) == {l[i].key : i \in 1..Len(l)}

\* elemCount of the component: the sum of the entries' elemsCount
elemCount(l) == SumOver([i \in 1..Len(l) |-> l[i].elemsCount], Len(l))

measuredHeights(l) ==
    [k \in layoutKeys(l) |-> l[CHOOSE i \in 1..Len(l) : l[i].key = k].height]

weightedDefault(l) ==
    LET totalElems == elemCount(l)
        weighted == SumOver([i \in 1..Len(l) |-> l[i].height * l[i].elemsCount], Len(l))
        plain == SumOver([i \in 1..Len(l) |-> l[i].height], Len(l))
    IN  IF totalElems > 0 THEN weighted \div totalElems
        ELSE IF Len(l) > 0 THEN plain \div Len(l) ELSE 0

----------------------------------------------------------------------------
(* The Item Cache updater of fetchItems *)

RECURSIVE ascending(_)
ascending(S) ==
    IF S = {} THEN <<>>
    ELSE LET m == CHOOSE x \in S : \A y \in S : x <= y
         IN  <<m>> \o ascending(S \ {m})

\* insert k behind every key that is not farther from the offset: a stable sort
RECURSIVE insertByDistance(_, _, _)
insertByDistance(sorted, k, offset) ==
    IF sorted = <<>> THEN <<k>>
    ELSE IF Abs(Head(sorted) - offset) <= Abs(k - offset)
         THEN <<Head(sorted)>> \o insertByDistance(Tail(sorted), k, offset)
         ELSE <<k>> \o sorted

RECURSIVE sortByDistance(_, _, _)
sortByDistance(keys, n, offset) ==
    IF n = 0 THEN <<>>
    ELSE insertByDistance(sortByDistance(keys, n - 1, offset), keys[n], offset)

mergeMaps(prev, fetched) ==
    [k \in DOMAIN prev \cup DOMAIN fetched |->
        IF k \in DOMAIN fetched THEN fetched[k] ELSE prev[k]]

\* a mutant of merged: the batch is merged into the cache in both modes
mergedAlways(prev, fetched) == mergeMaps(prev, fetched)

merged(prev, fetched) == IF useCache THEN mergeMaps(prev, fetched) ELSE fetched

\* Math.max(...Object.keys(m).map(Number), -1) + 1
currentCount(m) ==
    IF DOMAIN m = {} THEN 0
    ELSE Highest(DOMAIN m) + 1

overflows(m) == useCache /\ Cardinality(DOMAIN m) > cacheSize

\* a mutant of keptKeys: one key too many survives
keptKeysOneMore(m, offset) ==
    LET keys == sortByDistance(ascending(DOMAIN m), Cardinality(DOMAIN m), offset)
    IN  {keys[i] : i \in 1..Min(cacheSize + 1, Len(keys))}

\* a mutant of keptKeys: the lowest indices survive, whatever the offset
keptKeysLowest(m, offset) ==
    LET keys == ascending(DOMAIN m)
    IN  {keys[i] : i \in 1..Min(cacheSize, Len(keys))}

\* a mutant of keptKeys: the comparator is reversed, the farthest indices
\* survive
keptKeysFarthest(m, offset) ==
    LET keys == sortByDistance(ascending(DOMAIN m), Cardinality(DOMAIN m), offset)
    IN  {keys[i] : i \in (Len(keys) - Min(cacheSize, Len(keys)) + 1)..Len(keys)}

keptKeys(m, offset) ==
    LET keys == sortByDistance(ascending(DOMAIN m), Cardinality(DOMAIN m), offset)
    IN  {keys[i] : i \in 1..Min(cacheSize, Len(keys))}

setItemsMapUpdater(prev, fetched, offset) ==
    LET m == merged(prev, fetched)
    IN  IF overflows(m)
        THEN [k \in keptKeys(m, offset) |-> m[k]]
        ELSE m

----------------------------------------------------------------------------
(* The injected source.  It may answer a call with fewer records than       *)
(* asked for; the variant of a record is a key of the layout fixed by its   *)
(* index (the render looks the key up in the layout), its data is that of   *)
(* one version of the source, so that two answers may disagree about an     *)
(* index.                                                                   *)

SourceKeys == <<"b", "b", "a">>

lKeyOf(idx) == SourceKeys[(idx % Len(SourceKeys)) + 1]

sourceRecord(idx, v) == [lKey |-> lKeyOf(idx), data |-> v]

response(offset, n, v) == [i \in 1..n |-> sourceRecord(offset + i - 1, v)]

----------------------------------------------------------------------------
(* fetchItems after the await.  A call f is [offset, size, rc], rc being    *)
(* the resolvedCount its closure captured.                                  *)

minOrFirst(prev, boundary) == IF prev = Null THEN boundary ELSE Min(prev, boundary)

\* a mutant of nextResolvedCount: the latest boundary overrides the earlier one
nextResolvedCountLatestWins(prev, f, data) ==
    IF ~isInfinite THEN prev
    ELSE IF Len(data) = 0 THEN f.offset
    ELSE IF Len(data) < f.size THEN f.offset + Len(data)
    ELSE prev

\* a mutant of nextResolvedCount: a short answer is not taken as a boundary
nextResolvedCountEmptyOnly(prev, f, data) ==
    IF ~isInfinite THEN prev
    ELSE IF Len(data) = 0 THEN minOrFirst(prev, f.offset)
    ELSE prev

nextResolvedCount(prev, f, data) ==
    IF ~isInfinite THEN prev
    ELSE IF Len(data) = 0 THEN minOrFirst(prev, f.offset)
    ELSE IF Len(data) < f.size THEN minOrFirst(prev, f.offset + Len(data))
    ELSE prev

returnsEarly(data) == isInfinite /\ Len(data) = 0

dropped(f, idx) == f.rc # Null /\ idx >= f.rc

fetchedOf(f, data) ==
    [idx \in {f.offset + i - 1 : i \in {j \in 1..Len(data) : ~dropped(f, f.offset + j - 1)}}
        |-> data[idx - f.offset + 1]]

\* the forEach over the first i records of the answer
RECURSIVE applyHeights(_, _, _, _, _, _)
applyHeights(tbl, lh, dh, f, data, i) ==
    IF i = 0 THEN tbl
    ELSE LET t == applyHeights(tbl, lh, dh, f, data, i - 1)
             idx == f.offset + i - 1
         IN  IF dropped(f, idx) THEN t
             ELSE setIndexHeight(t, dh, idx, OrDefault(lh, data[i].lKey, dh))

\* heightsRef, prefixRef, totalDeltaRef and itemsMap after one answer
applyBatch(tbl, items, lh, dh, f, data) ==
    IF returnsEarly(data)
    THEN [tbl |-> tbl, items |-> items]
    ELSE [tbl |-> applyHeights(tbl, lh, dh, f, data, Len(data)),
          items |-> setItemsMapUpdater(items, fetchedOf(f, data), f.offset)]

----------------------------------------------------------------------------
(* computeRange and the render *)

RECURSIVE walkDown(_, _, _, _, _)
walkDown(pref, heights, dh, st, idx) ==
    IF idx > 0
    THEN LET p == ensurePrefix(pref, heights, dh, idx)
         IN  IF p[idx + 1] > st
             THEN walkDown(p, heights, dh, st, idx - 1)
             ELSE [idx |-> idx, pref |-> p]
    ELSE [idx |-> idx, pref |-> pref]

\* a mutant of walkUp: the walk stops at an index whose end is the scroll
\* position
RECURSIVE walkUpStrict(_, _, _, _, _)
walkUpStrict(pref, heights, dh, st, idx) ==
    LET p == ensurePrefix(pref, heights, dh, idx + 1)
    IN  IF p[idx + 2] < st
        THEN walkUpStrict(p, heights, dh, st, idx + 1)
        ELSE [idx |-> idx, pref |-> p]

RECURSIVE walkUp(_, _, _, _, _)
walkUp(pref, heights, dh, st, idx) ==
    LET p == ensurePrefix(pref, heights, dh, idx + 1)
    IN  IF p[idx + 2] <= st
        THEN walkUp(p, heights, dh, st, idx + 1)
        ELSE [idx |-> idx, pref |-> p]

RECURSIVE accumulate(_, _, _, _, _, _)
accumulate(heights, dh, limit, vh, acc, end) ==
    IF (limit = Null \/ end < limit) /\ acc < vh
    THEN accumulate(heights, dh, limit, vh, acc + OrDefault(heights, end, dh), end + 1)
    ELSE end

\* a mutant of computeRange: the buffer is added once to the size
computeRangeSingleBuffer(pref, heights, dh, st, vh, rc) ==
    LET down == walkDown(pref, heights, dh, st, Max(0, st \div dh))
        up == walkUp(down.pref, heights, dh, st, down.idx)
        end == accumulate(heights, dh, rc, vh, 0, up.idx)
    IN  [start |-> Max(0, up.idx - BUFFER),
         size |-> Max(pageSize, end - up.idx + BUFFER),
         idx |-> up.idx, end |-> end, pref |-> up.pref]

\* a mutant of computeRange: the window starts at the corrected start index
computeRangeNoLead(pref, heights, dh, st, vh, rc) ==
    LET down == walkDown(pref, heights, dh, st, Max(0, st \div dh))
        up == walkUp(down.pref, heights, dh, st, down.idx)
        end == accumulate(heights, dh, rc, vh, 0, up.idx)
    IN  [start |-> up.idx,
         size |-> Max(pageSize, end - up.idx + BUFFER * 2),
         idx |-> up.idx, end |-> end, pref |-> up.pref]

\* defined for dh # 0; the result carries the prefix array the walk leaves
computeRange(pref, heights, dh, st, vh, rc) ==
    LET down == walkDown(pref, heights, dh, st, Max(0, st \div dh))
        up == walkUp(down.pref, heights, dh, st, down.idx)
        end == accumulate(heights, dh, rc, vh, 0, up.idx)
    IN  [start |-> Max(0, up.idx - BUFFER),
         size |-> Max(pageSize, end - up.idx + BUFFER * 2),
         idx |-> up.idx, end |-> end, pref |-> up.pref]

effectiveCount(rc) == IF isInfinite THEN rc ELSE elemCount(layout)

visible(r, rc) ==
    LET count == effectiveCount(rc)
    IN  {i \in r.start..(r.start + r.size - 1) : count = Null \/ i < count}

\* the prefix array after a render whose computeRange gave r: topForIndex of
\* every visible index has run on the array computeRange left
renderedPrefix(r, heights, dh, rc) ==
    LET vis == visible(r, rc)
    IN  IF vis = {} THEN r.pref
        ELSE topForIndexPref(r.pref, heights, dh, Highest(vis))

maxLoadedIndex(items) == currentCount(items) - 1

computeKnownCount(rc, maxLoaded, items) ==
    IF isInfinite
    THEN IF rc # Null THEN rc ELSE Max(maxLoaded, maxLoadedIndex(items) + 1)
    ELSE elemCount(layout)

computeTotalHeight(kc, dh, delta) == kc * dh + delta + additionalHeight

\* VirtualScrollRow after its mount: nothing is measured, and the reset effect
\* has run once
RowPackerMounted ==
    /\ source = <<>>
    /\ itemsPerRow = 1
    /\ isReady = FALSE
    /\ rowsRef = <<>>
    /\ pendingChunkRef = <<>>
    /\ elementCursorRef = 0
    /\ endReachedRef = FALSE
    /\ pendingFetchId = 1
    /\ fetchingRef = FALSE
    /\ rowFetch = {}
    /\ rowWaiting = EmptyBag
    /\ changes = 0
    /\ returned = 0
    /\ rejected = 0

----------------------------------------------------------------------------
(* The component.  Every action is one handler together with the render    *)
(* and the effects that follow it.                                          *)

Init ==
    /\ isInfinite \in BOOLEAN
    /\ useCache \in BOOLEAN
    /\ cacheSize \in CacheSizes
    /\ pageSize \in PageSizes
    /\ additionalHeight \in AdditionalHeights
    /\ layout \in Layouts
    /\ torrent = 1
    /\ layoutHeights = EmptyMap
    /\ defaultHeight = 0
    /\ resolvedCount = Null
    /\ itemsMap = EmptyMap
    /\ viewportHeight = Null
    /\ scrollTop = 0
    /\ heightsRef = EmptyMap
    /\ prefixRef = <<0>>
    /\ totalDeltaRef = 0
    /\ maxLoadedCountRef = 0
    /\ knownCount = IF isInfinite THEN 0 ELSE elemCount(layout)
    /\ totalHeight = additionalHeight
    /\ inflight = EmptyBag
    /\ lastSet = EmptyMap
    /\ observed = Null
    /\ RowPackerMounted

\* a mutant of issued: no guard, every wanted call reaches the source
issuedUnguarded(wanted, rc) == wanted

\* fetchItems up to the call of the source: the calls among `wanted' that pass
\* the resolvedCount guard
issued(wanted, rc) ==
    SelectSeq(wanted, LAMBDA c : ~(rc # Null /\ c.offset >= rc))

RECURSIVE addCalls(_, _, _)
addCalls(bag, calls, rc) ==
    IF calls = <<>> THEN bag
    ELSE addCalls(bag (+) SetToBag({[offset |-> Head(calls).offset,
                                     size |-> Head(calls).size, rc |-> rc]}),
                  Tail(calls), rc)

\* a mutant of wantedCalls: the initial-fetch effect does not look at the
\* default height
wantedCallsInitialUngated(r, dh, rangeEffect, initialEffect) ==
    (IF dh # 0 /\ rangeEffect THEN <<[offset |-> r.start, size |-> r.size]>> ELSE <<>>)
    \o (IF initialEffect THEN <<[offset |-> 0, size |-> pageSize]>> ELSE <<>>)

\* the calls the two fetch effects ask for, in the order the effects run
wantedCalls(r, dh, rangeEffect, initialEffect) ==
    IF dh = 0 THEN <<>>
    ELSE (IF rangeEffect THEN <<[offset |-> r.start, size |-> r.size]>> ELSE <<>>)
         \o (IF initialEffect THEN <<[offset |-> 0, size |-> pageSize]>> ELSE <<>>)

\* The render after a handler and the effects whose dependencies changed.
\* pending is the bag of calls and tbl the Height Table the handler leaves; the
\* primed state variables read here are set by the handler.
RenderAndEffects(pending, tbl, rangeEffect, initialEffect) ==
    LET r == computeRange(tbl.pref, tbl.heights, defaultHeight', scrollTop',
                          viewportHeight', resolvedCount')
        calls == issued(wantedCalls(r, defaultHeight', rangeEffect, initialEffect),
                        resolvedCount')
    IN  /\ heightsRef' = tbl.heights
        /\ totalDeltaRef' = tbl.delta
        /\ prefixRef' = IF defaultHeight' = 0 THEN tbl.pref
                         ELSE renderedPrefix(r, tbl.heights, defaultHeight',
                                             resolvedCount')
        /\ knownCount' =
              IF resolvedCount' # resolvedCount
                 \/ maxLoadedIndex(itemsMap') # maxLoadedIndex(itemsMap)
                 \/ elemCount(layout') # elemCount(layout)
              THEN computeKnownCount(resolvedCount', maxLoadedCountRef', itemsMap')
              ELSE knownCount
        /\ totalHeight' =
              IF knownCount' # knownCount \/ defaultHeight' # defaultHeight
              THEN computeTotalHeight(knownCount', defaultHeight', totalDeltaRef')
              ELSE totalHeight
        /\ inflight' = addCalls(pending, calls, resolvedCount')

\* Mount: the layout effect measures the boundNodes and resets the Height
\* Table, the mount effect measures the viewport; the render that follows
\* runs both fetch effects.
MeasureLayout ==
    /\ viewportHeight = Null
    /\ \E vh \in ViewportHeights : viewportHeight' = vh
    /\ layoutHeights' = measuredHeights(layout)
    /\ defaultHeight' = weightedDefault(layout)
    /\ UNCHANGED <<rowPacker, props, resolvedCount, itemsMap, scrollTop, maxLoadedCountRef,
                   lastSet, observed>>
    /\ RenderAndEffects(inflight,
                        [heights |-> EmptyMap, pref |-> <<0>>, delta |-> 0],
                        TRUE, TRUE)

\* onScroll: the browser reports a new scrollTop, within the scrollable extent;
\* while the default height is 0 the content is not rendered and the extent
\* is whatever the host page gives the container
Scroll(s) ==
    /\ viewportHeight # Null
    /\ s # scrollTop
    /\ defaultHeight = 0 \/ s <= Max(0, totalHeight - viewportHeight)
    /\ BagCardinality(inflight) < MaxInflight
    /\ scrollTop' = s
    /\ UNCHANGED <<rowPacker, props, layoutHeights, defaultHeight, resolvedCount, itemsMap,
                   viewportHeight, maxLoadedCountRef, lastSet, observed>>
    /\ RenderAndEffects(inflight, Table, TRUE, FALSE)

\* the boundaries a short or an empty answer shows
boundaries(f, data) ==
    IF Len(data) = 0 THEN {f.offset}
    ELSE IF Len(data) < f.size THEN {f.offset + Len(data)}
    ELSE {}

\* the least of the boundaries seen before (least, or Null) and those of data
leastBoundary(least, f, data) ==
    LET all == boundaries(f, data) \cup (IF least = Null THEN {} ELSE {least})
    IN  IF all = {} THEN Null ELSE CHOOSE x \in all : \A y \in all : x <= y

\* The source answers call f with data: the rest of fetchItems runs
Resolve(f, data) ==
    LET after == applyBatch(Table, itemsMap, layoutHeights, defaultHeight, f, data)
        m == merged(itemsMap, fetchedOf(f, data))
    IN  /\ resolvedCount' = nextResolvedCount(resolvedCount, f, data)
        /\ itemsMap' = after.items
        /\ maxLoadedCountRef' =
              IF returnsEarly(data) THEN maxLoadedCountRef
              ELSE Max(maxLoadedCountRef, currentCount(m))
        /\ observed' = leastBoundary(observed, f, data)
        /\ UNCHANGED <<rowPacker, props, layoutHeights, defaultHeight, viewportHeight,
                       scrollTop, lastSet>>
        /\ RenderAndEffects(inflight (-) SetToBag({f}), after.tbl,
                            resolvedCount' # resolvedCount,
                            resolvedCount' # resolvedCount)

\* The host passes another layout.  The measuring node is rendered only while
\* the default height is 0: then the layout effect measures the new layout and
\* resets the Height Table, and the render that follows runs both fetch
\* effects; otherwise the effect returns at once and only the render sees the
\* new layout.
ReplaceLayout(l) ==
    /\ viewportHeight # Null
    /\ l # layout
    /\ layout' = l
    /\ UNCHANGED <<rowPacker, isInfinite, useCache, cacheSize, pageSize,
                   additionalHeight,
                   torrent, resolvedCount, itemsMap, viewportHeight, scrollTop,
                   maxLoadedCountRef, lastSet, observed>>
    /\ IF defaultHeight = 0
       THEN /\ layoutHeights' = measuredHeights(l)
            /\ defaultHeight' = weightedDefault(l)
            /\ RenderAndEffects(inflight,
                                [heights |-> EmptyMap, pref |-> <<0>>, delta |-> 0],
                                TRUE, TRUE)
       ELSE /\ UNCHANGED <<layoutHeights, defaultHeight>>
            /\ RenderAndEffects(inflight, Table, FALSE, FALSE)

\* The host passes another source, while no call is pending: fetchItems is
\* re-created and both fetch effects run again
ReplaceTorrent(t) ==
    /\ viewportHeight # Null
    /\ t # torrent
    /\ inflight = EmptyBag
    /\ torrent' = t
    /\ UNCHANGED <<rowPacker, isInfinite, useCache, cacheSize, pageSize,
                   additionalHeight,
                   layout, layoutHeights, defaultHeight, resolvedCount, itemsMap,
                   viewportHeight, scrollTop, maxLoadedCountRef, lastSet, observed>>
    /\ RenderAndEffects(inflight, Table, TRUE, TRUE)

answers(f) ==
    {response(f.offset, n, v) : n \in AnswerLengths(f.size), v \in Versions}

\* the mounted component is served by a source whose data does not change
SourceAnswers ==
    \E f \in BagToSet(inflight) : \E n \in AnswerLengths(f.size) :
        Resolve(f, response(f.offset, n, 1))

UserScrolls == \E s \in ScrollTops : Scroll(s)

Next == MeasureLayout \/ UserScrolls \/ SourceAnswers

Spec == Init /\ [][Next]_vars

----------------------------------------------------------------------------
(* The component under a host that replaces its structural props: the      *)
(* layout, which may measure 0, and the source.  The user scrolls only      *)
(* while the default height is 0; caching is disabled.                      *)

PropsInit ==
    /\ isInfinite \in BOOLEAN
    /\ useCache = FALSE
    /\ cacheSize \in CacheSizes
    /\ pageSize \in PageSizes
    /\ additionalHeight \in AdditionalHeights
    /\ layout \in Layouts \cup FlatLayouts
    /\ torrent = 1
    /\ layoutHeights = EmptyMap
    /\ defaultHeight = 0
    /\ resolvedCount = Null
    /\ itemsMap = EmptyMap
    /\ viewportHeight = Null
    /\ scrollTop = 0
    /\ heightsRef = EmptyMap
    /\ prefixRef = <<0>>
    /\ totalDeltaRef = 0
    /\ maxLoadedCountRef = 0
    /\ knownCount = IF isInfinite THEN 0 ELSE elemCount(layout)
    /\ totalHeight = additionalHeight
    /\ inflight = EmptyBag
    /\ lastSet = EmptyMap
    /\ observed = Null
    /\ RowPackerMounted

LayoutReplaced == \E l \in Layouts \cup FlatLayouts : ReplaceLayout(l)

TorrentReplaced == \E t \in Torrents : ReplaceTorrent(t)

\* scroll events before a non-zero default height was measured
UnmeasuredScrolls == \E s \in ScrollTops : defaultHeight = 0 /\ Scroll(s)

PropsNext ==
    \/ MeasureLayout
    \/ UnmeasuredScrolls
    \/ SourceAnswers
    \/ LayoutReplaced
    \/ TorrentReplaced

PropsSpec == PropsInit /\ [][PropsNext]_vars

----------------------------------------------------------------------------
(* The Height Table on its own: setIndexHeight and topForIndex called in    *)
(* any order, under a fixed non-zero default height.                        *)

HeightInit ==
    /\ isInfinite = FALSE
    /\ useCache = TRUE
    /\ cacheSize \in CacheSizes
    /\ pageSize \in PageSizes
    /\ additionalHeight \in AdditionalHeights
    /\ layout \in Layouts
    /\ torrent = 1
    /\ layoutHeights = measuredHeights(layout)
    /\ defaultHeight \in DefaultHeights
    /\ resolvedCount = Null
    /\ itemsMap = EmptyMap
    /\ viewportHeight \in ViewportHeights
    /\ scrollTop = 0
    /\ heightsRef = EmptyMap
    /\ prefixRef = <<0>>
    /\ totalDeltaRef = 0
    /\ maxLoadedCountRef = 0
    /\ knownCount = elemCount(layout)
    /\ totalHeight = computeTotalHeight(knownCount, defaultHeight, 0)
    /\ inflight = EmptyBag
    /\ lastSet = EmptyMap
    /\ observed = Null
    /\ RowPackerMounted

outsideHeightTable ==
    <<rowPacker, props, layoutHeights, defaultHeight, resolvedCount, itemsMap, viewportHeight,
      scrollTop, maxLoadedCountRef, knownCount, totalHeight, inflight, observed>>

CallSetIndexHeight(index, h) ==
    LET tbl == setIndexHeight(Table, defaultHeight, index, h)
    IN  /\ heightsRef' = tbl.heights
        /\ prefixRef' = tbl.pref
        /\ totalDeltaRef' = tbl.delta
        /\ lastSet' = [j \in DOMAIN lastSet \cup {index} |->
                          IF j = index THEN h ELSE lastSet[j]]
        /\ UNCHANGED outsideHeightTable

CallTopForIndex(index) ==
    /\ prefixRef' = topForIndexPref(prefixRef, heightsRef, defaultHeight, index)
    /\ UNCHANGED <<heightsRef, totalDeltaRef, lastSet>>
    /\ UNCHANGED outsideHeightTable

HeightSets ==
    \E index \in 0..MaxHeightIndex : \E h \in 0..MaxSetHeight :
        CallSetIndexHeight(index, h)

HeightReads == \E index \in 0..MaxHeightIndex + 1 : CallTopForIndex(index)

HeightNext == HeightSets \/ HeightReads

HeightSpec == HeightInit /\ [][HeightNext]_vars

----------------------------------------------------------------------------
(* computeRange on its own: called at any scroll position over a Height     *)
(* Table that setIndexHeight and topForIndex calls have left, with a small  *)
(* and a large page size.                                                   *)

RangeInit ==
    /\ isInfinite = TRUE
    /\ useCache = TRUE
    /\ cacheSize \in CacheSizes
    /\ pageSize \in RangePageSizes
    /\ additionalHeight \in AdditionalHeights
    /\ layout \in Layouts
    /\ torrent = 1
    /\ layoutHeights = measuredHeights(layout)
    /\ defaultHeight \in DefaultHeights
    /\ resolvedCount = Null
    /\ itemsMap = EmptyMap
    /\ viewportHeight \in ViewportHeights
    /\ scrollTop = 0
    /\ heightsRef = EmptyMap
    /\ prefixRef = <<0>>
    /\ totalDeltaRef = 0
    /\ maxLoadedCountRef = 0
    /\ knownCount = 0
    /\ totalHeight = computeTotalHeight(knownCount, defaultHeight, 0)
    /\ inflight = EmptyBag
    /\ lastSet = EmptyMap
    /\ observed = Null
    /\ RowPackerMounted

\* the render materializes the prefix array over the indices that are set
RangeReads == CallTopForIndex(MaxHeightIndex + 1)

RangeNext == HeightSets \/ RangeReads

RangeSpec == RangeInit /\ [][RangeNext]_vars

\* the ranges computeRange may return in the current state: for every scroll
\* position, viewport height and resolvedCount it may be called with
rangesHere ==
    {computeRange(prefixRef, heightsRef, defaultHeight, st, vh, rc) :
        st \in 0..MaxRangeScroll, vh \in RangeViewportHeights,
        rc \in {Null} \cup 0..MaxRangeScroll}

----------------------------------------------------------------------------
(* fetchItems on its own: called with any offset and size, under the        *)
(* resolvedCount of the time or the one an older closure captured, and      *)
(* answered before the next call; topForIndex is called in between, as the  *)
(* render does.                                                             *)

FetchInit ==
    /\ isInfinite \in BOOLEAN
    /\ useCache \in BOOLEAN
    /\ cacheSize \in CacheSizes
    /\ pageSize \in PageSizes
    /\ additionalHeight \in AdditionalHeights
    /\ layout \in Layouts
    /\ torrent = 1
    /\ layoutHeights = measuredHeights(layout)
    /\ defaultHeight = weightedDefault(layout)
    /\ resolvedCount = Null
    /\ itemsMap = EmptyMap
    /\ viewportHeight \in ViewportHeights
    /\ scrollTop = 0
    /\ heightsRef = EmptyMap
    /\ prefixRef = <<0>>
    /\ totalDeltaRef = 0
    /\ maxLoadedCountRef = 0
    /\ knownCount = IF isInfinite THEN 0 ELSE elemCount(layout)
    /\ totalHeight = computeTotalHeight(knownCount, defaultHeight, 0)
    /\ inflight = EmptyBag
    /\ lastSet = EmptyMap
    /\ observed = Null
    /\ RowPackerMounted

\* the offsets of the pages
FetchOffsets == {page * pageSize : page \in 0..MaxFetchPage}

\* the calls that pass the guard of fetchItems
fetchCalls ==
    {f \in [offset : FetchOffsets, size : FetchSizes,
            rc : {Null, resolvedCount}] :
        issued(<<[offset |-> f.offset, size |-> f.size]>>, f.rc) # <<>>}

CallFetchItems(f, data) ==
    LET after == applyBatch(Table, itemsMap, layoutHeights, defaultHeight, f, data)
        m == merged(itemsMap, fetchedOf(f, data))
    IN  /\ resolvedCount' = nextResolvedCount(resolvedCount, f, data)
        /\ itemsMap' = after.items
        /\ heightsRef' = after.tbl.heights
        /\ prefixRef' = after.tbl.pref
        /\ totalDeltaRef' = after.tbl.delta
        /\ maxLoadedCountRef' =
              IF returnsEarly(data) THEN maxLoadedCountRef
              ELSE Max(maxLoadedCountRef, currentCount(m))
        /\ observed' = leastBoundary(observed, f, data)
        /\ UNCHANGED <<rowPacker, props, layoutHeights, defaultHeight, viewportHeight,
                       scrollTop, knownCount, totalHeight, inflight, lastSet>>

FetchCalls == \E f \in fetchCalls : \E data \in answers(f) : CallFetchItems(f, data)

\* the render materializes the prefix array over the offsets
FetchReads == CallTopForIndex(MaxFetchPage * pageSize + 1)

FetchNext == FetchCalls \/ FetchReads

FetchSpec == FetchInit /\ [][FetchNext]_vars

----------------------------------------------------------------------------
(* fetchItems called with sizes that fit the cache as well: a page, and a   *)
(* size of which the cache holds two batches.                               *)

SmallFetchSizes == {2, 3}

smallCalls ==
    {f \in [offset : FetchOffsets, size : SmallFetchSizes,
            rc : {Null, resolvedCount}] :
        issued(<<[offset |-> f.offset, size |-> f.size]>>, f.rc) # <<>>}

\* answered by a source whose data does not change
SmallFetchCalls ==
    \E f \in smallCalls : \E n \in AnswerLengths(f.size) :
        CallFetchItems(f, response(f.offset, n, 1))

EvictNext == SmallFetchCalls \/ FetchReads

\* eviction runs under caching only
EvictInit == FetchInit /\ useCache

EvictSpec == EvictInit /\ [][EvictNext]_vars

----------------------------------------------------------------------------
(* Properties *)

RECURSIVE sumOfLatest(_)
sumOfLatest(i) ==
    IF i <= 0 THEN 0 ELSE OrDefault(lastSet, i - 1, defaultHeight) + sumOfLatest(i - 1)

\* C1: after any sequence of setIndexHeight and topForIndex calls under a fixed
\* non-zero default height, topForIndex(i) is the sum over j < i of the latest
\* height set for j, the default height standing for every j never set.
PrefixSumCorrect ==
    \A i \in 0..MaxHeightIndex + 1 :
        topForIndex(prefixRef, heightsRef, defaultHeight, i) = sumOfLatest(i)

\* a height was set twice for an index below materialized prefix entries
PrefixSumWitness ==
    \E j \in DOMAIN heightsRef :
        /\ heightsRef[j] # defaultHeight
        /\ Len(prefixRef) > j + 2
        /\ \E k \in DOMAIN lastSet : k # j /\ lastSet[k] = defaultHeight
                                          /\ k \in DOMAIN heightsRef

\* what applying an answer would do, for every call fetchItems may be given
\* and every answer the source may give
anyAnswer(P(_, _)) ==
    \A f \in fetchCalls : \A data \in answers(f) : P(f, data)

\* a record that was fetched is no longer cached, under caching
recordEvicted ==
    /\ useCache
    /\ Cardinality(DOMAIN itemsMap) = cacheSize
    /\ \E k \in DOMAIN heightsRef : k \notin DOMAIN itemsMap

\* an eviction pass has run: an index that was once merged is gone from a full
\* cache
evictionHasRun ==
    /\ useCache
    /\ Cardinality(DOMAIN itemsMap) = cacheSize
    /\ maxLoadedCountRef > currentCount(itemsMap)

\* C2: after any fetch batch the cache holds at most cacheSize indices, with
\* caching enabled and with caching disabled.
CacheBound == Cardinality(DOMAIN itemsMap) <= cacheSize

\* C2 as amended: with caching enabled the cache holds at most cacheSize
\* indices after any fetch batch.
CacheBoundWhenCaching == useCache => Cardinality(DOMAIN itemsMap) <= cacheSize

CacheBoundWitness == evictionHasRun /\ scrollTop = 0

closer(a, b, o) ==
    \/ Abs(a - o) < Abs(b - o)
    \/ Abs(a - o) = Abs(b - o) /\ a < b

nearest(m, o) ==
    {k \in DOMAIN m : Cardinality({j \in DOMAIN m : closer(j, k, o)}) < cacheSize}

evictsNearest(f, data) ==
    LET fetched == fetchedOf(f, data)
        m == merged(itemsMap, fetched)
        after == setItemsMapUpdater(itemsMap, fetched, f.offset)
    IN  (~returnsEarly(data) /\ overflows(m)) =>
            /\ DOMAIN after = nearest(m, f.offset)
            /\ \A k \in DOMAIN after :
                  after[k] = IF k \in DOMAIN fetched THEN fetched[k] ELSE itemsMap[k]

\* C3: when a batch with offset o makes the merged cache larger than cacheSize,
\* the survivors are exactly the cacheSize merged indices nearest to o, a tie
\* going to the lower index, each with the record it had in the merged map.
EvictionExact == anyAnswer(evictsNearest)

\* the cache holds survivors of an eviction on both sides of a gap, one of them
\* below the offset of the batch that triggered it
EvictionWitness ==
    /\ recordEvicted
    /\ \E lo, hi \in DOMAIN itemsMap :
          /\ hi > lo + 1
          /\ \A k \in (lo + 1)..(hi - 1) : k \notin DOMAIN itemsMap
          /\ itemsMap[lo].data # itemsMap[hi].data

\* C4: once resolvedCount has a value it is never unset and never raised.
BoundaryMonotone ==
    [][resolvedCount # Null =>
          resolvedCount' # Null /\ resolvedCount' <= resolvedCount]_vars

\* a call still in flight captured a value that resolvedCount has since gone below
BoundaryLoweredWitness ==
    \E f \in BagToSet(inflight) :
        f.rc # Null /\ resolvedCount # Null /\ resolvedCount < f.rc

\* C5: in open-ended mode resolvedCount is the least boundary the completed
\* answers have shown (offset for an empty answer, offset + length for a short
\* one), and is unset iff there was none.
BoundaryIsLeastObserved == isInfinite => resolvedCount = observed

\* a short answer away from the top set the boundary to offset + length
ShortAnswerWitness ==
    /\ isInfinite
    /\ resolvedCount # Null
    /\ resolvedCount > 2
    /\ resolvedCount - 2 \in DOMAIN itemsMap
    /\ resolvedCount - 3 \notin DOMAIN itemsMap

\* C6: once resolvedCount is set, no call with offset >= resolvedCount reaches
\* the source: every call was issued below the resolvedCount of its time.
NoCallPastEnd ==
    \A f \in BagToSet(inflight) : f.rc = Null \/ f.offset < f.rc

\* the window starts at or past the resolved end, and its fetch was skipped
SkippedFetchWitness ==
    /\ resolvedCount # Null
    /\ defaultHeight # 0
    /\ computeRange(prefixRef, heightsRef, defaultHeight, scrollTop,
                    viewportHeight, resolvedCount).start >= resolvedCount
    /\ inflight = EmptyBag

appliedTwiceIsOnce(f, data) ==
    LET once == applyBatch(Table, itemsMap, layoutHeights, defaultHeight, f, data)
        twice == applyBatch(once.tbl, once.items, layoutHeights, defaultHeight, f, data)
    IN  once = twice

\* C7: applying the same answer twice in a row leaves the cache, the per-index
\* heights, the prefix array and totalDelta as applying it once does.
BatchIdempotent == anyAnswer(appliedTwiceIsOnce)

\* an answer that triggered an eviction has been applied, below prefix entries
\* that were materialized, and applying it again is possible
SameBatchTwiceWitness ==
    /\ recordEvicted
    /\ Len(prefixRef) > 2
    /\ \E f \in fetchCalls : \E data \in answers(f) :
          /\ Len(data) = f.size
          /\ overflows(merged(itemsMap, fetchedOf(f, data)))
          /\ applyBatch(Table, itemsMap, layoutHeights, defaultHeight, f, data)
                = [tbl |-> Table, items |-> itemsMap]

overlap(f, g) == f.offset < g.offset + g.size /\ g.offset < f.offset + f.size

thenApply(st, f, data) ==
    applyBatch(st.tbl, st.items, layoutHeights, defaultHeight, f, data)

\* C8: two in-flight fetches with overlapping ranges leave the same cache and
\* Height Table whichever resolves first.  Stated for full answers taken from
\* one version of the source.
OrderIndependent ==
    \A f, g \in BagToSet(inflight) : \A v \in Versions :
        LET here == [tbl |-> Table, items |-> itemsMap]
            df == response(f.offset, f.size, v)
            dg == response(g.offset, g.size, v)
        IN  overlap(f, g) =>
                thenApply(thenApply(here, f, df), g, dg)
                    = thenApply(thenApply(here, g, dg), f, df)

currentWindow ==
    visible(computeRange(prefixRef, heightsRef, defaultHeight, scrollTop,
                         viewportHeight, resolvedCount), resolvedCount)

\* C9: with the scroll position fixed and every in-flight fetch resolved, every
\* index of the window the source returned a record for is cached.  Stated for
\* caching disabled and a source that answered every call in full.
WindowLoaded ==
    (defaultHeight # 0 /\ inflight = EmptyBag /\ observed = Null /\ ~useCache)
        => currentWindow \subseteq DOMAIN itemsMap

\* C10: the total height handed to the render layer is
\* knownCount * defaultHeight + totalDelta + additionalHeight, with the
\* current totalDelta.
TotalHeightCurrent ==
    totalHeight = knownCount * defaultHeight + totalDeltaRef + additionalHeight

\* computeRange() of the current render: null while the default height is 0
currentRange ==
    IF defaultHeight = 0 THEN Null
    ELSE computeRange(prefixRef, heightsRef, defaultHeight, scrollTop,
                      viewportHeight, resolvedCount)

\* C11: while defaultHeight is 0 computeRange returns null and no call to the
\* source is issued, whatever scroll, layout and source events occur.
MeasurementGate ==
    defaultHeight = 0 => currentRange = Null /\ inflight = EmptyBag

\* the component is mounted with a layout that measures 0, the user has
\* scrolled and the host has passed another source
MeasurementGateWitness ==
    /\ defaultHeight = 0
    /\ viewportHeight # Null
    /\ layout \in FlatLayouts
    /\ scrollTop # 0
    /\ torrent # 1

\* C12: computeRange returns start = max(0, idx - 5) and
\* size = max(pageSize, (end - idx) + 10), so size >= pageSize; with viewport
\* height 600, uniform height 60 and scroll offset 0 it returns start = 0 and
\* size = max(pageSize, 20).
WindowFormula ==
    /\ \A r \in rangesHere :
          /\ r.start = Max(0, r.idx - 5)
          /\ r.size = Max(pageSize, (r.end - r.idx) + 10)
          /\ r.size >= pageSize
    /\ LET r == computeRange(<<0>>, EmptyMap, 60, 0, 600, Null)
       IN  r.start = 0 /\ r.size = Max(pageSize, 20)

\* both cases of the formula occur: a start index the walk moved beyond the
\* buffer, and a size that the page size floors or the viewport decides
WindowFormulaWitness ==
    /\ \E r \in rangesHere : r.start > 0 /\ r.end > r.idx
    /\ \E j \in DOMAIN heightsRef : heightsRef[j] # defaultHeight
    /\ Len(prefixRef) > 1

\* the calls a step adds to those in flight
newCalls == {f \in BagToSet(inflight') : CopiesIn(f, inflight') > CopiesIn(f, inflight)}

\* C13: every call issued has the offset and the size of the range computed
\* from the scroll position current at the moment of the call.
CallsFollowRange ==
    [][\A f \in newCalls :
          f.offset = currentRange'.start /\ f.size = currentRange'.size]_vars

\* C14: no two calls with the same offset and size are in flight at once.
NoDuplicateCalls ==
    \A f, g \in BagToSet(inflight) :
        (f.offset = g.offset /\ f.size = g.size) =>
            f = g /\ CopiesIn(f, inflight) = 1

\* the indices of a call's range that lie below the count, when one is known
wantedIndices(f, count) ==
    {i \in f.offset..(f.offset + f.size - 1) : count = Null \/ i < count}

\* C15: the source is called for a range only if an index of the range below
\* the known count is missing from the Item Cache.
FetchOnlyMissing ==
    [][\A f \in newCalls :
          \E i \in wantedIndices(f, effectiveCount(resolvedCount')) :
              i \notin DOMAIN itemsMap']_vars

\* the Height Table holds no override: every materialized prefix entry is a
\* multiple of the default height
heightTableInitial ==
    /\ heightsRef = EmptyMap
    /\ totalDeltaRef = 0
    /\ \A i \in 1..Len(prefixRef) : prefixRef[i] = (i - 1) * defaultHeight

\* C16: when the source or the layout is replaced after the first
\* measurement, the Item Cache, resolvedCount, the per-index heights, the
\* prefix array and totalDelta are back at their initial values.
StructuralReset ==
    [][(defaultHeight # 0 /\ (torrent' # torrent \/ layout' # layout)) =>
          (itemsMap' = EmptyMap /\ resolvedCount' = Null /\ heightTableInitial')]_vars

replacesCache(f, data) ==
    LET after == applyBatch(Table, itemsMap, layoutHeights, defaultHeight, f, data).items
        k == Cardinality({i \in 1..Len(data) : ~dropped(f, f.offset + i - 1)})
    IN  (~useCache /\ Len(data) > 0) =>
            /\ DOMAIN after = f.offset..(f.offset + k - 1)
            /\ \A idx \in DOMAIN after : after[idx] = data[idx - f.offset + 1]

\* C17: with caching disabled, after a non-empty batch at offset o with k
\* accepted records is applied the cache holds exactly the indices
\* o .. o+k-1 with that batch's records.
ReplaceMode == anyAnswer(replacesCache)

\* with caching disabled the cache holds a batch, and an index fetched by an
\* earlier batch is gone from it
ReplaceModeWitness ==
    /\ ~useCache
    /\ itemsMap # EmptyMap
    /\ \E k \in DOMAIN heightsRef : k \notin DOMAIN itemsMap

----------------------------------------------------------------------------
(* The Row Packer: VirtualScrollRow (src/src/VirtualScrollRow.tsx).  The    *)
(* source is a flat stream of records, served page by page; ensureRows      *)
(* regroups it into rows.  VirtualScroll is its caller: ensureRows is       *)
(* called with any number of needed rows, at any time after the first       *)
(* measurement.                                                             *)

\* the source holds at most MaxElements records
MaxElements == 7
\* ensureRows is called for at most MaxNeededRows rows
MaxNeededRows == 4
\* at most MaxWaiting calls are in their backoff at a time
MaxWaiting == 1
\* the source rejects at most MaxRejected calls, and then holds at most
\* MaxRejectElements records
MaxRejected == 1
MaxRejectElements == 4
\* itemsPerRow changes at most MaxChanges times after the first measurement
MaxChanges == 1
\* under resizes the source holds at most MaxResizeElements records and
\* ensureRows is called for at most MaxResizeNeededRows rows
MaxResizeElements == 3
MaxResizeNeededRows == 1

\* itemLayout.key, and the key of a record of another variant
PackKey == "p"
SpecialKey == "title"
ItemsPerRowValues == {1, 2, 3}
\* the numbers of special records a stream holds
SpecialCounts == {0, 1, 2}
RowPageSizes == {1}

\* the streams: the variant key of each record, in source order
Streams ==
    UNION {{[i \in 1..n |-> IF i \in S THEN SpecialKey ELSE PackKey] :
               S \in {X \in SUBSET (1..n) : Cardinality(X) \in SpecialCounts}} :
           n \in 0..MaxElements}

\* the record at a 0-based position of the source: its data is its position
elementAt(i) == [lKey |-> source[i + 1], data |-> i]

\* torrent(offset, size) of a paginated source
torrentAnswer(offset, size) ==
    [i \in 1..Max(0, Min(size, Len(source) - offset)) |-> elementAt(offset + i - 1)]

packedRow(chunk) == [lKey |-> PackKey, data |-> [items |-> chunk]]

\* a mutant of packElement: a special element does not flush the partial row
packElementNoFlush(st, el, ipr) ==
    IF el.lKey = PackKey
    THEN LET chunk == Append(st.pending, el)
         IN  IF Len(chunk) = ipr
             THEN [rows |-> Append(st.rows, packedRow(chunk)), pending |-> <<>>]
             ELSE [rows |-> st.rows, pending |-> chunk]
    ELSE [rows |-> Append(st.rows, el), pending |-> st.pending]

\* a mutant of packElement: the partial row is not emptied when it is pushed
packElementKeepsChunk(st, el, ipr) ==
    IF el.lKey = PackKey
    THEN LET chunk == Append(st.pending, el)
         IN  IF Len(chunk) = ipr
             THEN [rows |-> Append(st.rows, packedRow(chunk)), pending |-> chunk]
             ELSE [rows |-> st.rows, pending |-> chunk]
    ELSE [rows |-> Append(IF st.pending # <<>>
                          THEN Append(st.rows, packedRow(st.pending))
                          ELSE st.rows, el),
          pending |-> <<>>]

\* one pass of the packing loop's body
packElement(st, el, ipr) ==
    IF el.lKey = PackKey
    THEN LET chunk == Append(st.pending, el)
         IN  IF Len(chunk) = ipr
             THEN [rows |-> Append(st.rows, packedRow(chunk)), pending |-> <<>>]
             ELSE [rows |-> st.rows, pending |-> chunk]
    ELSE [rows |-> Append(IF st.pending # <<>>
                          THEN Append(st.rows, packedRow(st.pending))
                          ELSE st.rows, el),
          pending |-> <<>>]

\* the packing loop from the i-th record of the answer on: it stops as soon
\* as neededRows rows exist
\* a mutant of packFrom: every batch builds the rows anew
RECURSIVE packFromAnew(_, _, _, _, _)
packFromAnew(st, resp, i, neededRows, ipr) ==
    IF i > Len(resp) THEN st
    ELSE LET base == IF i = 1 THEN [rows |-> <<>>, pending |-> st.pending] ELSE st
             next == packElement(base, resp[i], ipr)
         IN  IF Len(next.rows) >= neededRows THEN next
             ELSE packFromAnew(next, resp, i + 1, neededRows, ipr)

RECURSIVE packFrom(_, _, _, _, _)
packFrom(st, resp, i, neededRows, ipr) ==
    IF i > Len(resp) THEN st
    ELSE LET next == packElement(st, resp[i], ipr)
         IN  IF Len(next.rows) >= neededRows THEN next
             ELSE packFrom(next, resp, i + 1, neededRows, ipr)

\* a short answer finalizes the partial row
finalizeShort(st, resp, fetchElems) ==
    IF Len(resp) < fetchElems /\ st.pending # <<>>
    THEN [rows |-> Append(st.rows, packedRow(st.pending)), pending |-> <<>>]
    ELSE st

\* the elements the rows and the partial row hold
RECURSIVE consumed(_, _)
consumed(rows, n) ==
    IF n = 0 THEN 0
    ELSE consumed(rows, n - 1)
         + (IF rows[n].lKey = PackKey THEN Len(rows[n].data.items) ELSE 1)

\* a mutant of repairedCursor: every row counts as one element
repairedCursorCountsRows(cursor, st) == Len(st.rows) + Len(st.pending)

\* a mutant of repairedCursor: the cursor is advanced by the answer's length
\* and never aligned
unrepairedCursor(cursor, st) == cursor

\* the cursor after a batch, aligned with the elements packed
repairedCursor(cursor, st) ==
    LET sum == consumed(st.rows, Len(st.rows)) + Len(st.pending)
    IN  IF cursor # sum THEN sum ELSE cursor

fetchElemsFor(neededRows, rows, ipr) ==
    LET need == neededRows - Len(rows)
    IN  Max(need * Max(1, ipr), Max(pageSize * Max(1, ipr), Max(1, ipr) * 5))

\* a mutant of isStale: no answer is taken for stale
isStaleNever(f) == FALSE

\* the stale result check
isStale(f) == f.thisFetchId # pendingFetchId

\* the refs after the answer resp to the fetch f is packed
afterBatch(f, resp) ==
    IF isStale(f)
    THEN [rows |-> rowsRef, pending |-> pendingChunkRef,
          cursor |-> elementCursorRef, end |-> endReachedRef]
    ELSE IF Len(resp) = 0
    THEN [rows |-> IF pendingChunkRef # <<>>
                   THEN Append(rowsRef, packedRow(pendingChunkRef)) ELSE rowsRef,
          pending |-> <<>>,
          cursor |-> elementCursorRef,
          end |-> TRUE]
    ELSE LET st == finalizeShort(packFrom([rows |-> rowsRef,
                                           pending |-> pendingChunkRef],
                                          resp, 1, f.neededRows, f.itemsPerRow),
                                 resp, f.fetchElems)
         IN  [rows |-> st.rows, pending |-> st.pending,
              cursor |-> repairedCursor(elementCursorRef + Len(resp), st),
              end |-> endReachedRef]

\* a mutant of loops: the end-reached flag is not looked at
loopsPastEnd(c, rows, end) == Len(rows) < c.neededRows

\* the while condition of the call c, over the refs given
loops(c, rows, end) == Len(rows) < c.neededRows /\ ~end

\* a mutant of mustWait: a call never waits for another call's fetch
mustWaitNever(flag) == FALSE

\* a mutant of mustWait: a call backs off whatever the flag says
mustWaitAlways(flag) == TRUE

\* a call that finds fetchingRef set waits and re-checks
mustWait(flag) == flag

\* a mutant of released: the flag stays set when a call leaves its try block
heldAfterTry == TRUE

\* fetchingRef after the finally block
released == FALSE

\* the call c issues its next fetch, beside the calls in flight given:
\* fetchingRef is set and the fetch id taken
StartFetch(c, rows, cursor, others) ==
    /\ fetchingRef' = TRUE
    /\ pendingFetchId' = pendingFetchId + 1
    /\ rowFetch' = others \cup
                   {[neededRows |-> c.neededRows, itemsPerRow |-> c.itemsPerRow,
                     thisFetchId |-> pendingFetchId + 1, offset |-> cursor,
                     fetchElems |-> fetchElemsFor(c.neededRows, rows,
                                                  c.itemsPerRow)]}

\* rowTorrent after its ensureRows has returned: the rows from position i on,
\* up to position needed - 1, over the refs given; the partial buffer stands
\* for the row right after the last one
RECURSIVE rowTorrentFrom(_, _, _, _)
rowTorrentFrom(rows, pending, i, needed) ==
    IF i >= needed THEN <<>>
    ELSE IF i < Len(rows)
    THEN <<rows[i + 1]>> \o rowTorrentFrom(rows, pending, i + 1, needed)
    ELSE IF i = Len(rows) /\ Len(pending) > 0
    THEN <<packedRow(pending)>> \o rowTorrentFrom(rows, pending, i + 1, needed)
    ELSE <<>>

rowTorrentOut(rows, pending, rowOffset, rowSize) ==
    rowTorrentFrom(rows, pending, rowOffset, rowOffset + rowSize)

\* rowTorrent calls ensureRows(k): the call runs up to its first await
CallEnsureRows(k) ==
    LET c == [neededRows |-> k, itemsPerRow |-> itemsPerRow]
    IN  /\ isReady
        /\ k >= pageSize
        /\ UNCHANGED <<scrollEngine, source, itemsPerRow, isReady, rowsRef,
                       pendingChunkRef, elementCursorRef, endReachedRef, changes,
                       rejected>>
        /\ IF ~loops(c, rowsRef, endReachedRef)
           THEN /\ k > returned
                /\ returned' = k
                /\ UNCHANGED <<pendingFetchId, fetchingRef, rowFetch, rowWaiting>>
           ELSE IF mustWait(fetchingRef)
           THEN /\ BagCardinality(rowWaiting) < MaxWaiting
                /\ rowWaiting' = rowWaiting (+) SetToBag({c})
                /\ UNCHANGED <<pendingFetchId, fetchingRef, rowFetch, returned>>
           ELSE /\ StartFetch(c, rowsRef, elementCursorRef, rowFetch)
                /\ UNCHANGED <<rowWaiting, returned>>

\* the source answers the fetch f; its call packs the answer, leaves the try
\* block and goes round its loop: it returns, waits, or issues its next fetch
ResolveRowFetch(f) ==
    /\ f \in rowFetch
    /\ \E after \in {afterBatch(f, torrentAnswer(f.offset, f.fetchElems))} :
       LET c == [neededRows |-> f.neededRows, itemsPerRow |-> f.itemsPerRow]
       IN  /\ rowsRef' = after.rows
           /\ pendingChunkRef' = after.pending
           /\ elementCursorRef' = after.cursor
           /\ endReachedRef' = after.end
           /\ IF ~loops(f, after.rows, after.end)
              THEN /\ fetchingRef' = released
                   /\ rowFetch' = rowFetch \ {f}
                   /\ returned' = Max(returned, f.neededRows)
                   /\ UNCHANGED <<pendingFetchId, rowWaiting>>
              ELSE IF mustWait(released)
              THEN /\ fetchingRef' = released
                   /\ rowFetch' = rowFetch \ {f}
                   /\ rowWaiting' = rowWaiting (+) SetToBag({c})
                   /\ UNCHANGED <<pendingFetchId, returned>>
              ELSE /\ StartFetch(f, after.rows, after.cursor, rowFetch \ {f})
                   /\ UNCHANGED <<returned, rowWaiting>>
    /\ UNCHANGED <<scrollEngine, source, itemsPerRow, isReady, changes, rejected>>

\* the source rejects the fetch f: the exception leaves the try block through
\* the finally block and the loop, and the promise of ensureRows rejects
RejectRowFetch(f) ==
    /\ f \in rowFetch
    /\ rejected < MaxRejected
    /\ rejected' = rejected + 1
    /\ fetchingRef' = released
    /\ rowFetch' = rowFetch \ {f}
    /\ UNCHANGED <<scrollEngine, source, itemsPerRow, isReady, rowsRef,
                   pendingChunkRef, elementCursorRef, endReachedRef,
                   pendingFetchId, rowWaiting, changes, returned>>

\* the backoff of a waiting call ends while no fetch is in flight: the call
\* returns, or issues its fetch
WakeEnsureRows(c) ==
    /\ BagIn(c, rowWaiting)
    /\ ~mustWait(fetchingRef)
    /\ rowWaiting' = rowWaiting (-) SetToBag({c})
    /\ UNCHANGED <<scrollEngine, source, itemsPerRow, isReady, rowsRef,
                   pendingChunkRef, elementCursorRef, endReachedRef, changes,
                   rejected>>
    /\ IF loops(c, rowsRef, endReachedRef)
       THEN /\ StartFetch(c, rowsRef, elementCursorRef, rowFetch)
            /\ UNCHANGED returned
       ELSE /\ returned' = Max(returned, c.neededRows)
            /\ UNCHANGED <<pendingFetchId, fetchingRef, rowFetch>>

\* measure(): the first measurement shows VirtualScroll; a later one that
\* changes itemsPerRow re-creates rowTorrent, and the reset effect clears
\* the mapping.  When VirtualScroll has its default height its fetch effects
\* run first, as effects of a child: the range effect calls ensureRows(k) and
\* the initial-fetch effect ensureRows(pageSize), both of the new render.
Measure(count, refetch, k) ==
    /\ isReady => count # itemsPerRow /\ changes < MaxChanges
    /\ ~isReady => ~refetch /\ k = pageSize
    /\ k >= pageSize
    /\ itemsPerRow' = count
    /\ isReady' = TRUE
    /\ changes' = IF isReady THEN changes + 1 ELSE changes
    /\ UNCHANGED <<scrollEngine, source, rejected>>
    /\ IF count = itemsPerRow
       THEN UNCHANGED <<rowsRef, pendingChunkRef, elementCursorRef, endReachedRef,
                        pendingFetchId, fetchingRef, rowFetch, rowWaiting, returned>>
       ELSE LET c1 == [neededRows |-> k, itemsPerRow |-> count]
                c2 == [neededRows |-> pageSize, itemsPerRow |-> count]
                first == refetch /\ loops(c1, rowsRef, endReachedRef)
                second == refetch /\ loops(c2, rowsRef, endReachedRef)
                fetches == first /\ ~mustWait(fetchingRef)
                waiters == IF mustWait(fetchingRef)
                           THEN (IF first THEN SetToBag({c1}) ELSE EmptyBag)
                                (+) (IF second THEN SetToBag({c2}) ELSE EmptyBag)
                           ELSE IF first /\ second THEN SetToBag({c2})
                           ELSE EmptyBag
            IN  /\ rowsRef' = <<>>
                /\ pendingChunkRef' = <<>>
                /\ elementCursorRef' = 0
                /\ endReachedRef' = FALSE
                /\ returned' = 0
                /\ rowWaiting' = rowWaiting (+) waiters
                /\ IF fetches
                   THEN /\ fetchingRef' = TRUE
                        /\ rowFetch' = rowFetch \cup
                              {[neededRows |-> k, itemsPerRow |-> count,
                                thisFetchId |-> pendingFetchId + 1,
                                offset |-> elementCursorRef,
                                fetchElems |-> fetchElemsFor(k, rowsRef, count)]}
                        /\ pendingFetchId' = pendingFetchId + 2
                   ELSE /\ UNCHANGED <<fetchingRef, rowFetch>>
                        /\ pendingFetchId' = pendingFetchId + 1

RowInit ==
    /\ isInfinite = TRUE
    /\ useCache = TRUE
    /\ cacheSize \in CacheSizes
    /\ pageSize \in RowPageSizes
    /\ additionalHeight \in AdditionalHeights
    /\ layout \in Layouts
    /\ torrent = 1
    /\ layoutHeights = EmptyMap
    /\ defaultHeight = 0
    /\ resolvedCount = Null
    /\ itemsMap = EmptyMap
    /\ viewportHeight = Null
    /\ scrollTop = 0
    /\ heightsRef = EmptyMap
    /\ prefixRef = <<0>>
    /\ totalDeltaRef = 0
    /\ maxLoadedCountRef = 0
    /\ knownCount = 0
    /\ totalHeight = additionalHeight
    /\ inflight = EmptyBag
    /\ lastSet = EmptyMap
    /\ observed = Null
    /\ source \in Streams
    /\ itemsPerRow = 1
    /\ isReady = FALSE
    /\ rowsRef = <<>>
    /\ pendingChunkRef = <<>>
    /\ elementCursorRef = 0
    /\ endReachedRef = FALSE
    /\ pendingFetchId = 1
    /\ fetchingRef = FALSE
    /\ rowFetch = {}
    /\ rowWaiting = EmptyBag
    /\ changes = 0
    /\ returned = 0
    /\ rejected = 0

NeededRows == 1..MaxNeededRows

EnsureRowsCalls == \E k \in NeededRows : CallEnsureRows(k)

BackoffsEnd ==
    \E c \in [neededRows : NeededRows, itemsPerRow : ItemsPerRowValues] :
        WakeEnsureRows(c)

FirstMeasures ==
    \E count \in ItemsPerRowValues : ~isReady /\ Measure(count, FALSE, pageSize)

SourceResolves == \E f \in rowFetch : ResolveRowFetch(f)

SourceRejects == \E f \in rowFetch : RejectRowFetch(f)

\* the packer under an itemsPerRow that stays as first measured
RowNext == FirstMeasures \/ EnsureRowsCalls \/ SourceResolves \/ BackoffsEnd

RowSpec == RowInit /\ [][RowNext]_vars

\* the packer under resizes that change itemsPerRow
ResizeInit == RowInit /\ Len(source) <= MaxResizeElements

Resizes ==
    \E count \in ItemsPerRowValues : \E refetch \in BOOLEAN :
        \E k \in 1..MaxResizeNeededRows :
            isReady /\ Measure(count, refetch, k)

ResizeCalls == \E k \in 1..MaxResizeNeededRows : CallEnsureRows(k)

ResizeNext ==
    FirstMeasures \/ ResizeCalls \/ SourceResolves \/ BackoffsEnd \/ Resizes

\* the packer served by a source that may reject
RejectNext ==
    FirstMeasures \/ EnsureRowsCalls \/ SourceResolves \/ BackoffsEnd
        \/ SourceRejects

RejectInit == RowInit /\ Len(source) <= MaxRejectElements

RejectSpec == RejectInit /\ [][RejectNext]_vars

ResizeSpec == ResizeInit /\ [][ResizeNext]_vars

----------------------------------------------------------------------------
(* The packer under resizes, with the scheduling of the event loop: every   *)
(* call of the source resolves in the end, and the timer of a backoff       *)
(* fires.  The streams are short and hold packable records only.            *)

MaxTermElements == 1
MaxTermNeededRows == 1
TermItemsPerRow == {1, 2}

TermInit ==
    /\ RowInit
    /\ Len(source) <= MaxTermElements
    /\ \A i \in 1..Len(source) : source[i] = PackKey

TermMeasures ==
    \E count \in TermItemsPerRow : ~isReady /\ Measure(count, FALSE, pageSize)

TermResizes ==
    \E count \in TermItemsPerRow : \E refetch \in BOOLEAN :
        \E k \in 1..MaxTermNeededRows :
            isReady /\ Measure(count, refetch, k)

TermCalls == \E k \in 1..MaxTermNeededRows : CallEnsureRows(k)

TermNext ==
    TermMeasures \/ TermCalls \/ SourceResolves \/ BackoffsEnd \/ TermResizes

TermSpec ==
    /\ TermInit
    /\ [][TermNext]_vars
    /\ WF_vars(SourceResolves)
    /\ WF_vars(BackoffsEnd)

----------------------------------------------------------------------------
(* Properties of the Row Packer *)

ceilDiv(n, d) == (n + d - 1) \div d

packableOnly == \A i \in 1..Len(source) : source[i] = PackKey

\* the size the j-th of the rows of n packable records has, N to a row
rowSize(j, n, N) == IF j < ceilDiv(n, N) \/ n % N = 0 THEN N ELSE n % N

\* C18: under a constant itemsPerRow = N and a source of n packable records,
\* once a call ensureRows(k) with k >= ceil(n/N) has returned there are
\* exactly ceil(n/N) rows, in source order, each of N records but a last one
\* of n mod N records when that is not 0.
RowPacking ==
    LET n == Len(source)
        N == itemsPerRow
    IN  (packableOnly /\ returned > 0 /\ returned >= ceilDiv(n, N)) =>
            /\ Len(rowsRef) = ceilDiv(n, N)
            /\ \A j \in 1..Len(rowsRef) :
                   rowsRef[j] = packedRow([i \in 1..rowSize(j, n, N) |->
                                              elementAt((j - 1) * N + i - 1)])

\* seven packable records packed three to a row by more than one fetch
RowPackingWitness ==
    /\ Len(source) = 7
    /\ packableOnly
    /\ itemsPerRow = 3
    /\ returned >= 3
    /\ pendingFetchId >= 4
    /\ Len(rowsRef) = 3
    /\ Len(rowsRef[3].data.items) = 1

RECURSIVE chunked(_, _)
chunked(run, N) ==
    IF run = <<>> THEN <<>>
    ELSE IF Len(run) <= N THEN <<packedRow(run)>>
    ELSE <<packedRow(SubSeq(run, 1, N))>> \o chunked(SubSeq(run, N + 1, Len(run)), N)

\* the rows of a stream: every run of packable records, N to a row, and
\* every special record on its own
RECURSIVE expectedRows(_, _, _)
expectedRows(els, run, N) ==
    IF els = <<>> THEN chunked(run, N)
    ELSE IF Head(els).lKey = PackKey
    THEN expectedRows(Tail(els), Append(run, Head(els)), N)
    ELSE chunked(run, N) \o <<Head(els)>> \o expectedRows(Tail(els), <<>>, N)

RECURSIVE flattened(_, _)
flattened(rows, n) ==
    IF n = 0 THEN <<>>
    ELSE flattened(rows, n - 1)
         \o (IF rows[n].lKey = PackKey THEN rows[n].data.items ELSE <<rows[n]>>)

isPrefix(s, t) == Len(s) <= Len(t) /\ SubSeq(t, 1, Len(s)) = s

\* C19: a special element first finalizes a non-empty partial row and then
\* becomes a row of its own: the rows followed by the partial row are the
\* consumed records in source order, no row mixes a special record with
\* packable ones, and the rows are the first rows of the stream's packing,
\* in which every run of packable records ends at a special record.
SpecialsFlush ==
    LET all == torrentAnswer(0, Len(source))
        held == flattened(rowsRef, Len(rowsRef)) \o pendingChunkRef
    IN  /\ isPrefix(held, all)
        /\ \A j \in 1..Len(rowsRef) :
               \/ /\ rowsRef[j].lKey = PackKey
                  /\ \A i \in 1..Len(rowsRef[j].data.items) :
                         rowsRef[j].data.items[i].lKey = PackKey
               \/ /\ rowsRef[j].lKey # PackKey
                  /\ rowsRef[j] \in {all[i] : i \in 1..Len(all)}
        /\ isPrefix(rowsRef, expectedRows(all, <<>>, itemsPerRow))

\* [p, p, title, p, p, p] packed three to a row: [p, p], [title], [p, p, p]
SpecialsFlushWitness ==
    /\ source = <<PackKey, PackKey, SpecialKey, PackKey, PackKey, PackKey>>
    /\ itemsPerRow = 3
    /\ returned >= 3
    /\ Len(rowsRef) = 3
    /\ Len(rowsRef[1].data.items) = 2
    /\ rowsRef[2] = elementAt(2)
    /\ Len(rowsRef[3].data.items) = 3

\* C20: every finalized packable row holds at least 1 and at most the
\* current itemsPerRow records, and every special record is a row on its
\* own, also while a call of ensureRows made before a change of itemsPerRow
\* is still running.
RowCapacity ==
    \A j \in 1..Len(rowsRef) :
        IF rowsRef[j].lKey = PackKey
        THEN /\ Len(rowsRef[j].data.items) >= 1
             /\ Len(rowsRef[j].data.items) <= itemsPerRow
             /\ \A i \in 1..Len(rowsRef[j].data.items) :
                    rowsRef[j].data.items[i].lKey = PackKey
        ELSE rowsRef[j] \in {elementAt(i - 1) : i \in 1..Len(source)}

\* C21: after every completed batch the element cursor is the number of
\* source elements the finalized rows hold (1 for a special row, the item
\* count for a packable row) plus the length of the partial buffer, and a
\* source call in flight was issued with that cursor as its offset.
CursorInvariant ==
    /\ elementCursorRef
          = consumed(rowsRef, Len(rowsRef)) + Len(pendingChunkRef)
    /\ \A f \in rowFetch : f.offset = elementCursorRef

\* a batch whose answer held the whole source has stopped at the needed rows,
\* and the cursor was moved back to the records packed
CursorInvariantWitness ==
    /\ Len(source) <= 5
    /\ rowFetch = {}
    /\ returned > 0
    /\ Len(rowsRef) > 0
    /\ ~endReachedRef
    /\ elementCursorRef < Len(source)

\* C22: at most one source call issued by ensureRows is in flight at any
\* time, however many calls of ensureRows run.
SingleFetch == Cardinality(rowFetch) <= 1

\* a call waits while another call's fetch is in flight
SingleFetchWitness ==
    /\ rowFetch # {}
    /\ rowWaiting # EmptyBag

\* C25: when the source's answer is empty or shorter than the batch asked
\* for, the partial buffer is flushed as a final row and end-reached is set.
EndDetection ==
    [][\A f \in rowFetch :
          (/\ f \notin rowFetch'
           /\ rejected' = rejected
           /\ f.thisFetchId = pendingFetchId
           /\ Len(torrentAnswer(f.offset, f.fetchElems)) < f.fetchElems)
          => (endReachedRef' /\ pendingChunkRef' = <<>>)]_vars

\* C26: when the source rejects, the rejection reaches the caller of
\* ensureRows; rows, partial buffer, cursor and end-reached are unchanged;
\* the failed call issues no further source call; and fetchingRef is
\* released, so that no call waits on a flag that no fetch in flight holds.
FetchFailure ==
    [][/\ rejected' # rejected =>
            /\ rejected' = rejected + 1
            /\ rowsRef' = rowsRef
            /\ pendingChunkRef' = pendingChunkRef
            /\ elementCursorRef' = elementCursorRef
            /\ endReachedRef' = endReachedRef
            /\ returned' = returned
            /\ pendingFetchId' = pendingFetchId
            /\ rowFetch' \subseteq rowFetch
            /\ ~fetchingRef'
       /\ (rowFetch' = {}) => ~fetchingRef']_vars

\* after a rejection another call of ensureRows has issued a fetch
FetchFailureWitness ==
    /\ rejected > 0
    /\ rowFetch # {}

\* C23: when a source call resolves after a reset has bumped the generation,
\* rows, partial buffer, element cursor and end-reached stay as the reset
\* left them, and no call of ensureRows returns.
StaleDiscarded ==
    [][\A f \in rowFetch :
          (f \notin rowFetch' /\ f.thisFetchId # pendingFetchId)
          => /\ rowsRef' = rowsRef
             /\ pendingChunkRef' = pendingChunkRef
             /\ elementCursorRef' = elementCursorRef
             /\ endReachedRef' = endReachedRef
             /\ returned' = returned]_vars

\* a source call is in flight that was issued before the last reset, for
\* rows the source can fill
StaleDiscardedWitness ==
    /\ changes > 0
    /\ Len(source) > 0
    /\ \E f \in rowFetch : f.thisFetchId # pendingFetchId

\* C24: after a change of itemsPerRow every row present was packed from
\* source element 0 onward with the new itemsPerRow, also when a call of
\* ensureRows made before the change resumes after it.
RestartsPacking ==
    changes > 0 =>
        isPrefix(rowsRef,
                 expectedRows(torrentAnswer(0, Len(source)), <<>>, itemsPerRow))

\* the range computeRange returns at scroll position st in the current state
rangeAt(st) ==
    computeRange(prefixRef, heightsRef, defaultHeight, st, viewportHeight, resolvedCount)

\* Math.floor(scrollTopVal / defaultHeight), the index the walk starts from
guessAt(st) == Max(0, st \div defaultHeight)

\* C27: for every scroll position >= 0 and a default height > 0, over any
\* non-negative heights, computeRange ends its two walks (the range is
\* defined) at an index idx with topForIndex(idx) <= scrollTop <
\* topForIndex(idx + 1).
StartIndexCorrect ==
    \A st \in 0..MaxRangeScroll :
        LET r == rangeAt(st)
        IN  /\ r.idx \in 0..(st + MaxHeightIndex + 1)
            /\ topForIndex(r.pref, heightsRef, defaultHeight, r.idx) <= st
            /\ st < topForIndex(r.pref, heightsRef, defaultHeight, r.idx + 1)

\* both walks have moved the index: down at one scroll position, up at another
StartIndexWitness ==
    /\ \E st \in 0..MaxRangeScroll : rangeAt(st).idx < guessAt(st)
    /\ \E st \in 0..MaxRangeScroll : rangeAt(st).idx > guessAt(st)
    /\ \E j \in DOMAIN heightsRef : heightsRef[j] = 0

\* what setIndexHeight(index, h) would do to the table of the current state
framed(index, h) ==
    LET t == setIndexHeight(Table, defaultHeight, index, h)
        delta == h - OrDefault(heightsRef, index, defaultHeight)
    IN  /\ t.delta = totalDeltaRef + delta
        /\ Len(t.pref) = Len(prefixRef)
        /\ \A i \in 1..Len(prefixRef) :
              t.pref[i] = IF i - 1 > index THEN prefixRef[i] + delta ELSE prefixRef[i]
        /\ DOMAIN t.heights \subseteq DOMAIN heightsRef \cup {index}
        /\ \A j \in DOMAIN heightsRef \ {index} :
              j \in DOMAIN t.heights /\ t.heights[j] = heightsRef[j]
        /\ OrDefault(t.heights, index, defaultHeight) = h
        /\ (delta = 0) => (t = Table)

\* C28: setIndexHeight(index, h), with delta = h - the current height of
\* index, adds delta to totalDelta and to every materialized prefix entry at a
\* position greater than index, changes no entry at a position <= index and no
\* other index's height, and changes nothing at all when delta is 0.
SetIndexHeightFrame ==
    \A index \in 0..MaxHeightIndex : \A h \in 0..MaxSetHeight : framed(index, h)

\* the whole prefix array is materialized over two indices that were given
\* heights other than the default, and the deltas so far are negative
SetIndexHeightFrameWitness ==
    /\ Len(prefixRef) = MaxHeightIndex + 2
    /\ totalDeltaRef < 0
    /\ \E j, k \in DOMAIN heightsRef :
          j < k /\ heightsRef[j] # defaultHeight /\ heightsRef[k] # defaultHeight
    /\ prefixRef[Len(prefixRef)] = (MaxHeightIndex + 1) * defaultHeight + totalDeltaRef

\* the indices of the window [start, start + size)
window(r) == r.start..(r.start + r.size - 1)

\* C29: at every scroll position the returned range contains every index from
\* the corrected start index idx up to, not including, the end index at which
\* the accumulated heights first reach the viewport height, at least 5
\* further indices after it, and min(idx, 5) indices before idx.
WindowCoversViewport ==
    \A r \in rangesHere :
        /\ r.end >= r.idx
        /\ r.idx..(r.end - 1) \subseteq window(r)
        /\ r.end..(r.end + 4) \subseteq window(r)
        /\ (r.idx - Min(r.idx, 5))..(r.idx - 1) \subseteq window(r)

\* a window the viewport decides, with five indices before a start index that
\* the walk moved past the buffer
WindowCoversWitness ==
    \E r \in rangesHere :
        /\ r.idx > BUFFER
        /\ r.end > r.idx + 1
        /\ r.size > pageSize

\* the eviction pass a batch triggers leaves every record of the batch cached
batchSurvives(f, data) ==
    LET fetched == fetchedOf(f, data)
        m == merged(itemsMap, fetched)
        after == setItemsMapUpdater(itemsMap, fetched, f.offset)
    IN  (useCache /\ ~returnsEarly(data) /\ overflows(m)) =>
            \A k \in DOMAIN fetched : k \in DOMAIN after /\ after[k] = fetched[k]

\* a call of the given sizes, answered now, triggers an eviction pass over a
\* full cache that holds an index below the offset of the call
evictsBelow(sizes) ==
    /\ useCache
    /\ Cardinality(DOMAIN itemsMap) = cacheSize
    /\ \E f \in smallCalls : \E data \in answers(f) :
          /\ f.size \in sizes
          /\ Len(data) = f.size
          /\ DOMAIN fetchedOf(f, data) # {}
          /\ overflows(merged(itemsMap, fetchedOf(f, data)))
          /\ \E k \in DOMAIN itemsMap :
                k < f.offset /\ k \notin keptKeys(merged(itemsMap, fetchedOf(f, data)), f.offset)

\* C30: with caching enabled and cacheSize at least the fetch size, every
\* record of the batch that triggered an eviction pass is still in the Item
\* Cache after that pass, whatever indices the cache held before.
EvictionKeepsBatch ==
    \A f \in smallCalls : \A data \in answers(f) :
        (cacheSize >= f.size) => batchSurvives(f, data)

\* C30 as amended: with caching enabled and cacheSize at least twice the
\* fetch size minus one, every record of the batch that triggered an eviction
\* pass is still in the Item Cache after that pass.
EvictionKeepsBatchOfHalf ==
    \A f \in smallCalls : \A data \in answers(f) :
        (cacheSize >= 2 * f.size - 1) => batchSurvives(f, data)

\* an eviction pass has run, the cache is full, and a call of a size the
\* amended bound covers evicts a cached index below its offset
EvictionKeepsBatchWitness ==
    /\ evictionHasRun
    /\ evictsBelow({s \in SmallFetchSizes : cacheSize >= 2 * s - 1})

\* C31: in open-ended mode, whenever resolvedCount is set the Item Cache holds
\* no index >= resolvedCount and no height is recorded for such an index,
\* whatever the source answers and in whatever order the calls in flight
\* resolve.
CacheRespectsEnd ==
    (isInfinite /\ resolvedCount # Null) =>
        \A k \in DOMAIN itemsMap \cup DOMAIN heightsRef : k < resolvedCount

\* C32: for a source that answers with slices of a fixed stream and a constant
\* itemsPerRow, after every completed batch the records of all rows in order,
\* followed by the partial buffer, are the first `cursor' elements of the
\* stream, although a batch stops packing once the needed rows exist and
\* drops the rest of the answer.
NoLossNoDuplicate ==
    /\ elementCursorRef <= Len(source)
    /\ flattened(rowsRef, Len(rowsRef)) \o pendingChunkRef
          = torrentAnswer(0, elementCursorRef)

\* two fetches have completed, the rows end before the stream does, and they
\* hold a special record and a row of several records
NoLossWitness ==
    /\ pendingFetchId >= 3
    /\ rowFetch = {}
    /\ ~endReachedRef
    /\ Len(rowsRef) >= 2
    /\ elementCursorRef < Len(source)
    /\ \E j \in 1..Len(rowsRef) : rowsRef[j].lKey = SpecialKey
    /\ \E j \in 1..Len(rowsRef) :
          rowsRef[j].lKey = PackKey /\ Len(rowsRef[j].data.items) >= 2

\* C33: between two resets of the packed-row state, a row that exists at
\* position i keeps its content and no row is removed, so rowTorrent returns
\* the same row for row index i on every call, also while another ensureRows
\* is in flight.
RowsAppendOnly ==
    [][(itemsPerRow' = itemsPerRow) =>
          /\ isPrefix(rowsRef, rowsRef')
          /\ \A i \in 0..(Len(rowsRef) - 1) :
                rowTorrentOut(rowsRef', pendingChunkRef', i, 1)
                    = rowTorrentOut(rowsRef, pendingChunkRef, i, 1)]_vars

\* rows of an earlier batch exist while a later call is awaiting the source
\* and another one is waiting for it
RowsAppendOnlyWitness ==
    /\ Len(rowsRef) >= 2
    /\ pendingFetchId >= 3
    /\ \E f \in rowFetch : f.offset > 0 /\ f.neededRows > Len(rowsRef)
    /\ rowWaiting # EmptyBag

\* C34: once end-reached is set, no ensureRows call, whether running, waiting
\* for the in-flight flag or new, calls the source until the packed-row state
\* is reset.
NoFetchAfterEnd ==
    [][(endReachedRef /\ itemsPerRow' = itemsPerRow) =>
          /\ rowFetch' \subseteq rowFetch
          /\ pendingFetchId' = pendingFetchId]_vars

\* after a reset the end was reached again and a call has returned with fewer
\* rows than it needed
NoFetchAfterEndWitness ==
    /\ changes > 0
    /\ endReachedRef
    /\ returned > Len(rowsRef)
    /\ rowFetch = {}

\* a call ensureRows(n) has not returned: it awaits the source or its backoff
pendingCall(n) ==
    \/ \E f \in rowFetch : f.neededRows = n
    \/ \E c \in BagToSet(rowWaiting) : c.neededRows = n

\* a call ensureRows(n) returns in this step: its fetch is answered and it
\* neither fetches again nor waits, or its backoff ends and it does not fetch
returnsNow(n) ==
    \/ \E f \in rowFetch :
          f.neededRows = n /\ rowFetch' = rowFetch \ {f} /\ rowWaiting' = rowWaiting
    \/ \E c \in BagToSet(rowWaiting) :
          /\ c.neededRows = n
          /\ rowWaiting' = rowWaiting (-) SetToBag({c})
          /\ rowFetch' = rowFetch

\* C35: if every call of the source resolves in the end and the stream is
\* finite, every call ensureRows(n) returns in the end, with any number of
\* callers and resets in between, and when it returns there are at least n
\* rows or end-reached is set.
EnsureRowsTerminates ==
    /\ [][\A n \in 1..MaxTermNeededRows :
            returnsNow(n) => (Len(rowsRef') >= n \/ endReachedRef')]_vars
    /\ \A n \in 1..MaxTermNeededRows :
          pendingCall(n) ~> (~pendingCall(n) /\ (Len(rowsRef) >= n \/ endReachedRef))

\* after a reset, a call is awaiting the source while another call waits
EnsureRowsTerminatesWitness ==
    /\ changes > 0
    /\ Len(source) > 0
    /\ rowFetch # {}
    /\ rowWaiting # EmptyBag

====
